---- MODULE Spec2Model ----
(***************************************************************************)
(* A model of fast_dicom_reader.                                           *)
(*                                                                         *)
(*   Spec        the batch pipeline of main(): thread-count selection,     *)
(*               rayon pool construction, discovery, the parallel map over *)
(*               the discovered paths with its progress counter, and the   *)
(*               error report.  Both copies of main.rs are modelled; they  *)
(*               differ in the progress counter (Mutex<i32> in main.rs,    *)
(*               indicatif ProgressBar in src/main.rs) and in what an Ok   *)
(*               result carries.                                           *)
(*                                                                         *)
(*   DecodeSpec  the value decoding of extract_dicom_tags for one element: *)
(*               the VR match of dicom_utils.rs and the to_str() of        *)
(*               src/dicom_utils.rs, with chrono's parse_from_str and the  *)
(*               DICOM library's conversions modelled on character         *)
(*               sequences.                                                *)
(*                                                                         *)
(*   TagSpec     the loop of extract_dicom_tags over the attribute list.   *)
(***************************************************************************)
EXTENDS Integers, Sequences, FiniteSets, TLC

VARIABLES
    build,            \* which main.rs is running: "top" (main.rs, dicom_utils.rs) or "src" (src/*.rs)
    root,             \* what the path argument names
    tree,             \* the directory entries below the root, in walk order
    threads,          \* ReadArgs.threads: -1 is None, otherwise Some(n)
    num_cores,        \* num_cpus::get()
    num_threads,      \* the thread count main computes
    pool_size,        \* the number of threads the rayon pool runs
    pc,               \* main's position
    dicom_paths,      \* Vec<PathBuf> returned by get_dicom_paths_from_folder
    worker,           \* per pool thread: the item it holds and its position in the closure
    taken_by,         \* per item: the pool threads that ever started the closure on it
    results,          \* per item: the slot of the collected Vec<Result<..>>
    processed_count,  \* the Mutex-protected counter / the progress bar position
    mutex,            \* holder of processed_count's lock (0: free)
    panicked,         \* a closure panicked inside the pool
    errors,           \* the errors main reports
    exit_code,        \* process exit status (-1: still running)
    elem,             \* DecodeSpec: the element given to the VR match
    value,            \* DecodeSpec: the Value the match produced
    dicom,            \* TagSpec: the file object, tag -> element or Absent
    tags,             \* TagSpec: the attribute list
    tag_idx,          \* TagSpec: position of the for loop
    tags_map,         \* TagSpec: the HashMap being filled
    pixel_obj,        \* PixelSpec: the file object as the pixel decoder sees it
    pixel_data        \* PixelSpec: what extract_dicom_pixel_data returned

pipe_vars == <<build, root, tree, threads, num_cores, num_threads, pool_size, pc,
               dicom_paths, worker, taken_by, results, processed_count, mutex,
               panicked, errors, exit_code>>

pix_vars == <<pixel_obj, pixel_data>>

dec_vars == <<elem, value, dicom, tags, tag_idx, tags_map, pix_vars>>

vars == <<pipe_vars, dec_vars>>

----------------------------------------------------------------------------
(* Bounds *)

MaxEntries == 2
MaxCores == 2
MaxTextLen == 5
MaxTags == 3
MaxSamples == 3

Builds == {"top", "src"}

----------------------------------------------------------------------------
(* Text: a string is the sequence of its characters *)

Digits == {"0", "1", "2", "3", "4", "5", "6", "7", "8", "9"}

DigitVal(c) ==
    CASE c = "0" -> 0 [] c = "1" -> 1 [] c = "2" -> 2 [] c = "3" -> 3 [] c = "4" -> 4
      [] c = "5" -> 5 [] c = "6" -> 6 [] c = "7" -> 7 [] c = "8" -> 8 [] c = "9" -> 9

DigitChar(n) ==
    CASE n = 0 -> "0" [] n = 1 -> "1" [] n = 2 -> "2" [] n = 3 -> "3" [] n = 4 -> "4"
      [] n = 5 -> "5" [] n = 6 -> "6" [] n = 7 -> "7" [] n = 8 -> "8" [] n = 9 -> "9"

RECURSIVE Pow10(_)
Pow10(n) == IF n = 0 THEN 1 ELSE 10 * Pow10(n - 1)

RECURSIVE digits_value(_)
\* the number a run of digits denotes
digits_value(ds) ==
    IF ds = <<>> THEN 0
    ELSE 10 * digits_value(SubSeq(ds, 1, Len(ds) - 1)) + DigitVal(ds[Len(ds)])

RECURSIVE to_decimal(_)
\* Display of an unsigned integer
to_decimal(n) ==
    IF n < 10 THEN <<DigitChar(n)>> ELSE to_decimal(n \div 10) \o <<DigitChar(n % 10)>>

RECURSIVE digit_run(_, _)
\* how many of the first max characters of s are digits, counted from the start
digit_run(s, max) ==
    IF max = 0 \/ s = <<>> THEN 0
    ELSE IF Head(s) \notin Digits THEN 0
    ELSE 1 + digit_run(Tail(s), max - 1)

RECURSIVE trim_start(_)
trim_start(s) == IF s # <<>> /\ Head(s) = " " THEN trim_start(Tail(s)) ELSE s

RECURSIVE trim_end(_)
trim_end(s) ==
    IF s # <<>> /\ s[Len(s)] = " " THEN trim_end(SubSeq(s, 1, Len(s) - 1)) ELSE s

trim(s) == trim_end(trim_start(s))

Drop(s, n) == SubSeq(s, n + 1, Len(s))

----------------------------------------------------------------------------
(* chrono::format::parse, for the items the program's format strings use *)

ScanFail == [ok |-> FALSE, v |-> 0, rest |-> <<>>]

\* scan::number(s, min, max): between min and max leading digits, as an i64.
\* The widths of the items are at most 9; only a signed year takes more
\* digits, and a year of 10 digits or more is out of chrono's range, so the
\* parse fails either way.
scan_number(s, min, max) ==
    LET n == digit_run(s, max)
    IN  IF n < min \/ n > 9 THEN ScanFail
        ELSE [ok |-> TRUE, v |-> digits_value(SubSeq(s, 1, n)), rest |-> Drop(s, n)]

\* a Numeric item: leading white space is skipped; a signed item (the year)
\* takes any number of digits after an explicit sign, otherwise at most `width`
scan_numeric(s0, width, signed) ==
    LET s == trim_start(s0)
    IN  IF signed /\ s # <<>> /\ Head(s) = "-"
        THEN LET r == scan_number(Tail(s), 1, Len(s))
             IN  [r EXCEPT !.v = 0 - r.v]
        ELSE IF signed /\ s # <<>> /\ Head(s) = "+"
        THEN scan_number(Tail(s), 1, Len(s))
        ELSE scan_number(s, 1, width)

\* scan::nanosecond: 1 to 9 digits read as a decimal fraction of a second,
\* further digits skipped
scan_nanosecond(s) ==
    LET r == scan_number(s, 1, 9)
        n == digit_run(s, 9)
    IN  IF ~r.ok THEN ScanFail
        ELSE [ok |-> TRUE, v |-> r.v * Pow10(9 - n),
              rest |-> Drop(r.rest, digit_run(r.rest, Len(r.rest)))]

\* scan::nanosecond_fixed: exactly `digits` digits read as a decimal fraction
scan_nanosecond_fixed(s, digits) ==
    LET r == scan_number(s, digits, digits)
    IN  IF ~r.ok THEN ScanFail ELSE [r EXCEPT !.v = r.v * Pow10(9 - digits)]

\* the items of strftime: %Y %m %d %H %M %S %f are Numeric, "." a Literal,
\* %3f and %6f fixed-width fractions without the dot, %.f an optional
\* fraction with its dot
Num(field, width, signed) ==
    [kind |-> "num", field |-> field, width |-> width, signed |-> signed]
Y_ == Num("year", 4, TRUE)
m_ == Num("month", 2, FALSE)
d_ == Num("day", 2, FALSE)
H_ == Num("hour", 2, FALSE)
M_ == Num("minute", 2, FALSE)
S_ == Num("second", 2, FALSE)
f_ == Num("nanosecond", 9, FALSE)
Dot == [kind |-> "lit", field |-> ".", width |-> 1, signed |-> FALSE]
NoDot(n) == [kind |-> "nodot", field |-> "nanosecond", width |-> n, signed |-> FALSE]
DotF == [kind |-> "dotf", field |-> "nanosecond", width |-> 9, signed |-> FALSE]

Unparsed == [ok |-> TRUE, set |-> {}, year |-> 0, month |-> 0, day |-> 0,
             hour |-> 0, minute |-> 0, second |-> 0, nanosecond |-> 0]
ParseErr == [Unparsed EXCEPT !.ok = FALSE]

\* Parsed::set_*
set_field(parsed, field, v) ==
    LET q == [parsed EXCEPT !.set = @ \cup {field}]
    IN  CASE field = "year"       -> [q EXCEPT !.year = v]
          [] field = "month"      -> [q EXCEPT !.month = v]
          [] field = "day"        -> [q EXCEPT !.day = v]
          [] field = "hour"       -> [q EXCEPT !.hour = v]
          [] field = "minute"     -> [q EXCEPT !.minute = v]
          [] field = "second"     -> [q EXCEPT !.second = v]
          [] field = "nanosecond" -> [q EXCEPT !.nanosecond = v]

RECURSIVE parse_items(_, _, _)
\* format::parse: the items consume the input in turn; input left over at
\* the end is an error (TOO_LONG)
parse_items(s, items, parsed) ==
    IF items = <<>> THEN (IF s = <<>> THEN parsed ELSE ParseErr)
    ELSE
      LET it == Head(items)
      IN  CASE it.kind = "num" ->
                 LET r == scan_numeric(s, it.width, it.signed)
                 IN  IF ~r.ok THEN ParseErr
                     ELSE parse_items(r.rest, Tail(items), set_field(parsed, it.field, r.v))
            [] it.kind = "lit" ->
                 IF s # <<>> /\ Head(s) = it.field
                 THEN parse_items(Tail(s), Tail(items), parsed)
                 ELSE ParseErr
            [] it.kind = "nodot" ->
                 LET r == scan_nanosecond_fixed(s, it.width)
                 IN  IF ~r.ok THEN ParseErr
                     ELSE parse_items(r.rest, Tail(items), set_field(parsed, it.field, r.v))
            [] it.kind = "dotf" ->
                 IF s # <<>> /\ Head(s) = "."
                 THEN LET r == scan_nanosecond(Tail(s))
                      IN  IF ~r.ok THEN ParseErr
                          ELSE parse_items(r.rest, Tail(items),
                                           set_field(parsed, it.field, r.v))
                 ELSE parse_items(s, Tail(items), parsed)

IsLeap(y) == y % 4 = 0 /\ (y % 100 # 0 \/ y % 400 = 0)

DaysInMonth(y, m) ==
    IF m \in {4, 6, 9, 11} THEN 30
    ELSE IF m = 2 THEN (IF IsLeap(y) THEN 29 ELSE 28)
    ELSE 31

\* Parsed::to_naive_date from year, month and day
to_naive_date(q) ==
    /\ q.ok
    /\ {"year", "month", "day"} \subseteq q.set
    /\ q.year >= 0 - 262143 /\ q.year <= 262142
    /\ q.month \in 1..12
    /\ q.day >= 1 /\ q.day <= DaysInMonth(q.year, q.month)

\* Parsed::to_naive_time: hour and minute are needed, a nanosecond needs a second
to_naive_time(q) ==
    /\ q.ok
    /\ {"hour", "minute"} \subseteq q.set
    /\ q.hour \in 0..23
    /\ q.minute \in 0..59
    /\ ("second" \in q.set => q.second \in 0..60)
    /\ ("nanosecond" \in q.set => "second" \in q.set /\ q.nanosecond \in 0..999999999)

\* the time of day a Parsed denotes: <<hour, minute, second, nanosecond>>,
\* second 60 being 59 with a nanosecond part of a whole second more
time_of(q) ==
    IF q.second = 60 THEN <<q.hour, q.minute, 59, 1000000000 + q.nanosecond>>
    ELSE <<q.hour, q.minute, q.second, q.nanosecond>>

date_of(q) == <<q.year, q.month, q.day>>

\* NaiveDate::parse_from_str(s, fmt)
NaiveDate_parse_from_str(s, fmt) ==
    LET q == parse_items(s, fmt, Unparsed)
    IN  IF to_naive_date(q) THEN [ok |-> TRUE, dt |-> date_of(q)]
        ELSE [ok |-> FALSE, dt |-> <<>>]

\* NaiveTime::parse_from_str(s, fmt)
NaiveTime_parse_from_str(s, fmt) ==
    LET q == parse_items(s, fmt, Unparsed)
    IN  IF to_naive_time(q) THEN [ok |-> TRUE, dt |-> time_of(q)]
        ELSE [ok |-> FALSE, dt |-> <<>>]

\* NaiveDateTime::parse_from_str(s, fmt)
NaiveDateTime_parse_from_str(s, fmt) ==
    LET q == parse_items(s, fmt, Unparsed)
    IN  IF to_naive_date(q) /\ to_naive_time(q)
        THEN [ok |-> TRUE, dt |-> date_of(q) \o time_of(q)]
        ELSE [ok |-> FALSE, dt |-> <<>>]

\* let formats = ["%H%M%S", "%H%M%S.%f", "%H%M%S.%3f", "%H%M%S.%6f"];
TimeFormats ==
    << <<H_, M_, S_>>,
       <<H_, M_, S_, Dot, f_>>,
       <<H_, M_, S_, Dot, NoDot(3)>>,
       <<H_, M_, S_, Dot, NoDot(6)>> >>

\* let formats = ["%Y%m%d%H%M%S", "%Y%m%d%H%M%S%.f"];
DateTimeFormats ==
    << <<Y_, m_, d_, H_, M_, S_>>,
       <<Y_, m_, d_, H_, M_, S_, DotF>> >>

\* "%Y%m%d"
DateFormat == <<Y_, m_, d_>>

----------------------------------------------------------------------------
(* Elements and the DICOM library's conversions *)

\* Value: the variant with its payload; the fields a variant does not use
\* keep their defaults
Value(variant, text, num, dt) ==
    [variant |-> variant, text |-> text, num |-> num, dt |-> dt]
String(text) == Value("String", text, 0, <<>>)
Integer(n) == Value("Integer", <<>>, n, <<>>)
UnsignedInteger(n) == Value("UnsignedInteger", <<>>, n, <<>>)
Float(decimal_text) == Value("Float", decimal_text, 0, <<>>)
Date(dt) == Value("Date", <<>>, 0, dt)
Time(dt) == Value("Time", <<>>, 0, dt)
NoValue == Value("None", <<>>, 0, <<>>)

\* the sentinel strings, each a one-token text no raw text equals
ParseErrorText == <<"<parse error>">>
UnsupportedText == <<"<binary/unsupported>">>

\* elem.to_str(): every primitive value has a text, a sequence has none
to_str(e) ==
    CASE e.kind = "Sequence" -> [ok |-> FALSE, text |-> <<>>]
      [] e.kind = "Strs"     -> [ok |-> TRUE, text |-> e.text]
      [] e.kind = "Empty"    -> [ok |-> TRUE, text |-> <<>>]
      [] e.kind \in {"F32", "F64"} -> [ok |-> TRUE, text |-> e.text]
      [] OTHER               -> [ok |-> TRUE, text |-> to_decimal(e.num)]

RECURSIVE strip_leading_zeros(_)
strip_leading_zeros(ds) ==
    IF Len(ds) > 1 /\ Head(ds) = "0" THEN strip_leading_zeros(Tail(ds)) ELSE ds

RECURSIVE digits_le(_, _)
\* a <= b for two digit runs of the same length
digits_le(a, b) ==
    IF a = <<>> THEN TRUE
    ELSE IF DigitVal(Head(a)) # DigitVal(Head(b)) THEN DigitVal(Head(a)) < DigitVal(Head(b))
    ELSE digits_le(Tail(a), Tail(b))

\* whether the number a digit run denotes is at most the one `max` denotes
at_most(ds, max) ==
    LET a == strip_leading_zeros(ds)
    IN  Len(a) < Len(max) \/ (Len(a) = Len(max) /\ digits_le(a, max))

I32Max == <<"2", "1", "4", "7", "4", "8", "3", "6", "4", "7">>
I32MinAbs == <<"2", "1", "4", "7", "4", "8", "3", "6", "4", "8">>
U32Max == <<"4", "2", "9", "4", "9", "6", "7", "2", "9", "5">>
U16Max == <<"6", "5", "5", "3", "5">>

\* str::parse::<T>() on the trimmed text: an optional sign and digits, the
\* number within T's range; T is "u16", "u32" or "i32"
parse_int(s0, T) ==
    LET s == trim(s0)
        neg == s # <<>> /\ Head(s) = "-"
        body == IF s # <<>> /\ Head(s) \in {"-", "+"} THEN Tail(s) ELSE s
        zero == strip_leading_zeros(body) = <<"0">>
        fits == CASE T = "i32" -> at_most(body, IF neg THEN I32MinAbs ELSE I32Max)
                  [] T = "u32" -> (~neg \/ zero) /\ at_most(body, U32Max)
                  [] T = "u16" -> (~neg \/ zero) /\ at_most(body, U16Max)
    IN  IF body = <<>> \/ digit_run(body, Len(body)) # Len(body) \/ ~fits
        THEN [ok |-> FALSE, v |-> 0]
        ELSE IF strip_leading_zeros(body) = I32MinAbs THEN [ok |-> TRUE, v |-> (0 - 2147483647) - 1]
        ELSE [ok |-> TRUE, v |-> IF neg THEN 0 - digits_value(body) ELSE digits_value(body)]

\* elem.to_int::<T>(): a binary value of the element's own width converts,
\* a text is parsed, an empty value or a sequence is an error
to_int(e, T) ==
    CASE e.kind = "Strs" -> parse_int(e.text, T)
      [] e.kind \in {"U8", "U16"} -> [ok |-> TRUE, v |-> e.num]
      [] e.kind = "U32" /\ T # "u16" -> [ok |-> TRUE, v |-> e.num]
      [] OTHER -> [ok |-> FALSE, v |-> 0]

RECURSIVE strip_trailing_zeros(_)
strip_trailing_zeros(ds) ==
    IF ds # <<>> /\ ds[Len(ds)] = "0" THEN strip_trailing_zeros(SubSeq(ds, 1, Len(ds) - 1))
    ELSE ds

\* a decimal as a text in one form: sign, integer digits without leading
\* zeros, and the fraction digits without trailing zeros after a point
decimal(neg, int, frac) ==
    LET i == strip_leading_zeros(IF int = <<>> THEN <<"0">> ELSE int)
        f == strip_trailing_zeros(frac)
        z == i = <<"0">> /\ f = <<>>
    IN  (IF neg /\ ~z THEN <<"-">> ELSE <<>>) \o i \o (IF f = <<>> THEN <<>> ELSE <<".">> \o f)

\* str::parse::<f64>() on the trimmed text, for texts of digits, sign and
\* point; the f64 is kept as the decimal it was read from
parse_float(s0) ==
    LET s == trim(s0)
        neg == s # <<>> /\ Head(s) = "-"
        body == IF s # <<>> /\ Head(s) \in {"-", "+"} THEN Tail(s) ELSE s
        ni == digit_run(body, Len(body))
        after == Drop(body, ni)
        frac == IF after # <<>> /\ Head(after) = "." THEN Tail(after) ELSE <<>>
        nf == digit_run(frac, Len(frac))
        well == /\ ni + nf > 0
                /\ (after = <<>> \/ (Head(after) = "." /\ nf = Len(frac)))
    IN  IF ~well THEN [ok |-> FALSE, v |-> <<>>]
        ELSE [ok |-> TRUE, v |-> decimal(neg, SubSeq(body, 1, ni), frac)]

\* elem.to_float64()
to_float64(e) ==
    CASE e.kind = "Strs" -> parse_float(e.text)
      [] e.kind \in {"F32", "F64"} -> [ok |-> TRUE, v |-> e.text]
      [] e.kind \in {"U8", "U16", "U32"} -> [ok |-> TRUE, v |-> to_decimal(e.num)]
      [] OTHER -> [ok |-> FALSE, v |-> <<>>]

----------------------------------------------------------------------------
(* extract_dicom_tags: the value of one element *)

RECURSIVE first_time(_, _, _)
\* for format in formats.iter(): the first format that parses wins, the
\* raw string stays when none does
first_time(s, formats, i) ==
    IF i > Len(formats) THEN String(s)
    ELSE LET r == NaiveTime_parse_from_str(s, formats[i])
         IN  IF r.ok THEN Time(r.dt) ELSE first_time(s, formats, i + 1)

RECURSIVE first_datetime(_, _, _)
first_datetime(s, formats, i) ==
    IF i > Len(formats) THEN String(s)
    ELSE LET r == NaiveDateTime_parse_from_str(s, formats[i])
         IN  IF r.ok THEN Date(r.dt) ELSE first_datetime(s, formats, i + 1)

\* VR::DA: NaiveDate::parse_from_str(date_str, "%Y%m%d"), and_hms_opt(0, 0, 0)
decode_date(s) ==
    LET r == NaiveDate_parse_from_str(s, DateFormat)
    IN  IF r.ok THEN Date(r.dt \o <<0, 0, 0, 0>>) ELSE String(s)

\* every value becomes a string (a faulty variant of the VR match)
decode_typed_as_string(e) ==
    IF to_str(e).ok THEN String(to_str(e).text) ELSE String(ParseErrorText)

\* dicom_utils.rs: let value = match vr { .. }
decode_typed(e) ==
    LET s == to_str(e)
    IN  CASE e.vr \in {"PN", "LO", "SH", "CS", "UI"} ->
               IF s.ok THEN String(s.text) ELSE String(ParseErrorText)
          [] e.vr = "DA" ->
               IF s.ok THEN decode_date(s.text) ELSE String(ParseErrorText)
          [] e.vr = "TM" ->
               IF s.ok THEN first_time(s.text, TimeFormats, 1) ELSE String(ParseErrorText)
          [] e.vr = "DT" ->
               IF s.ok THEN first_datetime(s.text, DateTimeFormats, 1)
               ELSE String(ParseErrorText)
          [] e.vr = "US" ->
               LET r == to_int(e, "u16")
               IN  IF r.ok THEN UnsignedInteger(r.v) ELSE String(ParseErrorText)
          [] e.vr = "UL" ->
               LET r == to_int(e, "u32")
               IN  IF r.ok THEN UnsignedInteger(r.v) ELSE String(ParseErrorText)
          [] e.vr = "IS" ->
               LET r == to_int(e, "i32")
               IN  IF r.ok THEN Integer(r.v) ELSE String(ParseErrorText)
          [] e.vr \in {"DS", "FL", "FD"} ->
               LET r == to_float64(e)
               IN  IF r.ok THEN Float(r.v) ELSE String(ParseErrorText)
          [] OTHER ->
               IF s.ok THEN String(s.text) ELSE String(UnsupportedText)

\* src/dicom_utils.rs: match elem.to_str() { Ok(s) => s, Err(_) => "<parse error>" }
decode_string(e) ==
    IF to_str(e).ok THEN String(to_str(e).text) ELSE String(ParseErrorText)

\* the value extract_dicom_tags stores for a present element
decode_value(b, e) == IF b = "top" THEN decode_typed(e) ELSE decode_string(e)

----------------------------------------------------------------------------
(* The elements and files the decoding is checked on *)

Elem(vr, kind, text, num) == [vr |-> vr, kind |-> kind, text |-> text, num |-> num]

Absent == Elem("", "Absent", <<>>, 0)

\* the characters the generated texts are made of
Alphabet == {"1", "3", " ", "."}

\* texts of particular interest: times, dates, numbers, and malformed ones
SampleTexts ==
    { <<"1", "4", "3", "0", "0", "0">>,
      <<"1", "4", "3", "0", "0", "0", ".", "5", "0", "0">>,
      <<"1", "4", "3", "0", "0", "0", ".", "5">>,
      <<"a", "b", "c">>,
      <<"2", "0", "2", "3", "0", "4", "1", "5">>,
      <<"2", "0", "2", "3", "-", "0", "4", "-", "1", "5">>,
      <<"2", "0", "2", "3", "0", "4", "1">>,
      <<"2", "0", "2", "3", "0", "2", "3", "0">>,
      <<"2", "0", "2", "3", "0", "4", "1", "5", "1", "4", "3", "0", "0", "0">>,
      <<"2", "0", "2", "3", "0", "4", "1", "5", "1", "4", "3", "0", "0", "0", ".", "5">>,
      <<"-", "1", "2">>,
      <<"1", ".", "5", "0">>,
      <<"2", "1", "4", "7", "4", "8", "3", "6", "4", "8">> }

\* the text to_str() hands over has no trailing white space
Texts ==
    SampleTexts \cup
    { t \in UNION { [1..n -> Alphabet] : n \in 1..MaxTextLen } : t[Len(t)] # " " }

StringVRs == {"PN", "LO", "SH", "CS", "UI"}
ParsedVRs == {"DA", "TM", "DT", "IS", "DS"}
OtherTextVRs == {"LT"}

\* what a parsed file can hold under each VR: text for the text VRs, binary
\* numbers for US, UL, FL and FD, bytes for OB, items for SQ, or nothing
Elements ==
    { Elem(v, "Strs", t, 0) : v \in ParsedVRs, t \in Texts }
    \cup { Elem(v, "Strs", t, 0) : v \in StringVRs \cup OtherTextVRs, t \in SampleTexts }
    \cup { Elem(v, "Empty", <<>>, 0) :
             v \in StringVRs \cup ParsedVRs \cup OtherTextVRs \cup {"US", "UL", "FL", "FD", "OB"} }
    \cup { Elem("US", "U16", <<>>, n) : n \in {0, 4095, 65535} }
    \cup { Elem("UL", "U32", <<>>, n) : n \in {0, 70000} }
    \cup { Elem("FL", "F32", <<"1", ".", "5">>, 0), Elem("FD", "F64", <<"-", "0", ".", "2", "5">>, 0) }
    \cup { Elem("OB", "U8", <<>>, 255), Elem("SQ", "Sequence", <<>>, 0) }

\* attribute identifiers: three registered in StandardDataDictionary and a
\* private one that is not
TagIds == {"(0010,0010)", "(0008,0020)", "(0028,0010)", "(0009,0001)"}

\* the attribute list handed to extract_dicom_tags (consts::DICOM_TAGS)
DicomTagLists == UNION { [1..n -> TagIds] : n \in 0..MaxTags }

\* StandardDataDictionary.by_tag(tag).map(|entry| entry.alias)
by_tag(t) ==
    CASE t = "(0010,0010)" -> [found |-> TRUE, alias |-> "PatientName"]
      [] t = "(0008,0020)" -> [found |-> TRUE, alias |-> "StudyDate"]
      [] t = "(0028,0010)" -> [found |-> TRUE, alias |-> "Rows"]
      [] OTHER             -> [found |-> FALSE, alias |-> ""]

\* .unwrap_or("Unknown Tag")
tag_name(t) == IF by_tag(t).found THEN by_tag(t).alias ELSE "Unknown Tag"

\* the elements a file may hold under each of the identifiers
TagElements(t) ==
    CASE t = "(0010,0010)" -> { Elem("PN", "Strs", <<"a", "b", "c">>, 0) }
      [] t = "(0008,0020)" -> { Elem("DA", "Strs", <<"2", "0", "2", "3", "0", "4", "1", "5">>, 0),
                                Elem("DA", "Strs", <<"a", "b", "c">>, 0) }
      [] t = "(0028,0010)" -> { Elem("US", "U16", <<>>, 4095), Elem("US", "Empty", <<>>, 0) }
      [] OTHER             -> { Elem("LO", "Strs", <<"a", "b", "c">>, 0),
                                Elem("SQ", "Sequence", <<>>, 0) }

\* dicom.element(tag): Ok(elem) or Err(NoSuchDataElementTag)
DicomObjects ==
    { f \in [TagIds -> {Absent} \cup UNION { TagElements(t) : t \in TagIds }] :
        \A t \in TagIds : f[t] = Absent \/ f[t] \in TagElements(t) }

\* format!("{}", e) of the access error
not_found_text(t) == <<"No such data element with tag ", t>>

\* HashMap::insert
insert(m, k, v) == [x \in DOMAIN m \cup {k} |-> IF x = k THEN v ELSE m[x]]

NoMap == [x \in {} |-> NoValue]

\* the Ok arm without its insert (a faulty variant)
found_entry_skip(b, m, t, e) == m

\* Ok(elem) => { .. tags_map.insert(tag_name.to_string(), value); }
found_entry(b, m, t, e) == insert(m, tag_name(t), decode_value(b, e))

\* the Err arm without its insert (a faulty variant)
not_found_entry_skip(m, t) == m

\* Err(e) => { tags_map.insert(tag_name.to_string(), Value::String(format!("{}", e))); }
not_found_entry(m, t) == insert(m, tag_name(t), String(not_found_text(t)))

----------------------------------------------------------------------------
(* Pixel data *)

\* the sample types extract_dicom_pixel_data of src/dicom_utils.rs asks
\* to_ndarray for, in the order it asks
Candidates == <<"u16", "u8", "i16", "f32">>

\* The values of the samples as decode_pixel_data hands them to to_ndarray
\* (after the rescale of the file), counted in halves: 3 is 1.5, 400 is 200.
SampleValues == {0 - 3, 3, 400, 600, 80000, 140000}

RECURSIVE Product(_)
Product(shape) == IF shape = <<>> THEN 1 ELSE Head(shape) * Product(Tail(shape))

\* [frames, rows, columns, samples per pixel]
Shapes ==
    {sh \in {<<1, r, c, 1>> : r \in 1..MaxSamples, c \in 1..MaxSamples} :
        Product(sh) <= MaxSamples}

PixelObject(element, shape, samples) ==
    [element |-> element, shape |-> shape, samples |-> samples]

NoObject == PixelObject("none", <<>>, <<>>)

\* element: "absent" (no PIXEL_DATA element), "undecodable" (the element is
\* there and decode_pixel_data fails), "ok" (it decodes to shape and samples)
PixelObjects ==
    {PixelObject("absent", <<>>, <<>>), PixelObject("undecodable", <<>>, <<>>)} \cup
    UNION {{PixelObject("ok", sh, sm) : sm \in [1..Product(sh) -> SampleValues]} :
               sh \in Shapes}

\* a float to integer cast drops the fraction
trunc(s) == IF s >= 0 THEN s \div 2 ELSE 0 - ((0 - s) \div 2)

InRange(T, x) ==
    CASE T = "u8" -> x \in 0..255
      [] T = "u16" -> x \in 0..65535
      [] T = "i16" -> x \in (0 - 32768)..32767
      [] OTHER -> TRUE

\* NumCast::from of one sample: an integer type takes the whole part when
\* it is in the type's range, f32 keeps the value (still in halves)
NumCast(T, s) ==
    IF T = "f32" THEN [ok |-> TRUE, v |-> s]
    ELSE [ok |-> InRange(T, trunc(s)), v |-> trunc(s)]

\* dicom.decode_pixel_data()
decode_pixel_data(obj) ==
    IF obj.element = "ok"
    THEN [ok |-> TRUE, shape |-> obj.shape, samples |-> obj.samples]
    ELSE [ok |-> FALSE, shape |-> <<>>, samples |-> <<>>]

\* pixel_data.to_ndarray::<T>(): every sample is cast to T, one sample that
\* does not fit fails the call
to_ndarray(T, pd) ==
    IF \A i \in 1..Len(pd.samples) : NumCast(T, pd.samples[i]).ok
    THEN [ok |-> TRUE, shape |-> pd.shape,
          data |-> [i \in 1..Len(pd.samples) |-> NumCast(T, pd.samples[i]).v]]
    ELSE [ok |-> FALSE, shape |-> <<>>, data |-> <<>>]

\* x as i32
as_i32(T, x) == IF T = "f32" THEN trunc(x) ELSE x

\* Array::from_vec(vec_data).into_shape_with_order(shape)
into_shape_with_order(vec_data, shape) ==
    [ok |-> Len(vec_data) = Product(shape), shape |-> shape, data |-> vec_data]

None == [kind |-> "None", dtype |-> "", shape |-> <<>>, data |-> <<>>]
Some(dtype, arr) == [kind |-> "Some", dtype |-> dtype, shape |-> arr.shape, data |-> arr.data]
Panicked == [kind |-> "Panic", dtype |-> "", shape |-> <<>>, data |-> <<>>]
NotExtracted == [kind |-> "NotExtracted", dtype |-> "", shape |-> <<>>, data |-> <<>>]

\* the body of one `if let Ok(array) = pixel_data.to_ndarray::<T>()`
widen(T, array) ==
    LET vec_data == [i \in 1..Len(array.data) |-> as_i32(T, array.data[i])]
        arr == into_shape_with_order(vec_data, array.shape)
    IN  IF arr.ok THEN Some("i32", arr) ELSE None

\* extract_dicom_pixel_data with the first candidate alone (a faulty variant)
extract_dicom_pixel_data_first_only(obj) ==
    LET pd == decode_pixel_data(obj)
    IN  IF obj.element = "absent" \/ ~pd.ok THEN None
        ELSE IF to_ndarray("u16", pd).ok THEN widen("u16", to_ndarray("u16", pd))
        ELSE None

\* extract_dicom_pixel_data of src/dicom_utils.rs: Option<Array<i32, IxDyn>>
extract_dicom_pixel_data_i32(obj) ==
    LET pd == decode_pixel_data(obj)
    IN  IF obj.element = "absent" THEN None
        ELSE IF ~pd.ok THEN None
        ELSE IF to_ndarray("u16", pd).ok THEN widen("u16", to_ndarray("u16", pd))
        ELSE IF to_ndarray("u8", pd).ok THEN widen("u8", to_ndarray("u8", pd))
        ELSE IF to_ndarray("i16", pd).ok THEN widen("i16", to_ndarray("i16", pd))
        ELSE IF to_ndarray("f32", pd).ok THEN widen("f32", to_ndarray("f32", pd))
        ELSE None

\* extract_dicom_pixel_data of dicom_utils.rs: Option<Array<u16, IxDyn>>,
\* u16 is the one type asked for and the reshape is unwrapped
extract_dicom_pixel_data_u16(obj) ==
    LET pd == decode_pixel_data(obj)
        array == to_ndarray("u16", pd)
        arr == into_shape_with_order(array.data, array.shape)
    IN  IF ~pd.ok THEN None
        ELSE IF ~array.ok THEN None
        ELSE IF arr.ok THEN Some("u16", arr) ELSE Panicked

extract_dicom_pixel_data(b, obj) ==
    IF b = "top" THEN extract_dicom_pixel_data_u16(obj)
    ELSE extract_dicom_pixel_data_i32(obj)

----------------------------------------------------------------------------
(* The file system as the program sees it *)

NoThreads == 0 - 1

\* One directory entry as walkdir and the DICOM library present it:
\*   ftype      entry.file_type(): "file" or "dir"
\*   walk_ok    the walk yielded Ok(entry) rather than Err
\*   name       the file name: ".DS_Store", an ordinary UTF-8 name, or a
\*              name that is not valid UTF-8 ("\xff")
\*   utf8       the whole path converts with to_str()
\*   open       what open_file answers: "Ok", or the ReadError variant
EntryKinds ==
    { [ftype |-> "file", walk_ok |-> TRUE,  name |-> "img.dcm",   utf8 |-> TRUE,  open |-> "Ok"],
      [ftype |-> "file", walk_ok |-> TRUE,  name |-> "notes.txt", utf8 |-> TRUE,  open |-> "ParseMetaDataSet"],
      [ftype |-> "file", walk_ok |-> TRUE,  name |-> "locked.dcm", utf8 |-> TRUE, open |-> "OpenFile"],
      [ftype |-> "file", walk_ok |-> TRUE,  name |-> "img.dcm",   utf8 |-> FALSE, open |-> "Ok"],
      [ftype |-> "file", walk_ok |-> TRUE,  name |-> ".DS_Store", utf8 |-> TRUE,  open |-> "ParseMetaDataSet"],
      [ftype |-> "file", walk_ok |-> TRUE,  name |-> "\\xff",     utf8 |-> FALSE, open |-> "Ok"],
      [ftype |-> "dir",  walk_ok |-> TRUE,  name |-> "series",    utf8 |-> TRUE,  open |-> "OpenFile"],
      [ftype |-> "file", walk_ok |-> FALSE, name |-> "img.dcm",   utf8 |-> TRUE,  open |-> "OpenFile"] }

Trees == UNION { [1..n -> EntryKinds] : n \in 0..MaxEntries }

RootKinds == {"dir", "missing", "nonutf8"}

Workers == 1..MaxCores

----------------------------------------------------------------------------
(* Pure parts of main.rs / os_utils.rs *)

\* .filter(|path| path.file_name().and_then(|n| n.to_str()).map_or(false, |n| n != ".DS_Store"))
name_filter(e) == e.name # "\\xff" /\ e.name # ".DS_Store"

\* .filter_map(|entry| entry.ok()).filter(|entry| entry.file_type().is_file())
entry_filter(e) == e.walk_ok /\ e.ftype = "file"

RECURSIVE walk_from(_, _)
\* the iterator chain over the walk from entry i on; a path is identified
\* by its position in the walk
walk_from(t, i) ==
    IF i > Len(t) THEN <<>>
    ELSE (IF entry_filter(t[i]) /\ name_filter(t[i]) THEN <<i>> ELSE <<>>)
         \o walk_from(t, i + 1)

\* get_dicom_paths_from_folder: a root that cannot be walked yields one Err,
\* which filter_map(entry.ok()) drops, so the answer is Ok(vec![])
get_dicom_paths_from_folder(r, t) ==
    IF r # "dir" THEN <<>> ELSE walk_from(t, 1)

\* read_args.threads.unwrap_or_else(|| if num_cores > 1 { num_cores - 1 } else { 1 })
compute_num_threads(th, cores) ==
    IF th # NoThreads THEN th
    ELSE IF cores > 1 THEN cores - 1 ELSE 1

\* rayon::ThreadPoolBuilder::num_threads(n): 0 lets rayon choose, one thread per core
rayon_pool_size(n, cores) == IF n = 0 THEN cores ELSE n

\* the text of dicom's ReadError: only OpenFile names the file
read_error(p, e) ==
    [variant |-> e.open, filename |-> IF e.open = "OpenFile" THEN p ELSE 0]

\* read_dicom_file
read_dicom_file(p, e) ==
    IF e.open = "Ok" THEN [kind |-> "Ok", path |-> p, cause |-> read_error(0, e)]
    ELSE [kind |-> "Err", path |-> 0, cause |-> read_error(p, e)]

\* extract_dicom_data(dicom_obj, path.clone()): the record keeps the path
extract_dicom_data(obj, p) == [kind |-> "Ok", path |-> p, cause |-> obj.cause]

\* process_single_dicom with the read error swallowed (a faulty variant)
process_single_dicom_swallow(b, p, e) ==
    [kind |-> "Ok", path |-> IF b = "src" THEN p ELSE 0, cause |-> read_error(0, e)]

\* process_single_dicom, after path.to_str().unwrap() succeeded.  The Err
\* is io::Error::new(Other, format!("Failed to read DICOM file: {}", e)):
\* it holds e's text and nothing else.  main.rs returns Ok(()) and drops
\* the record.
process_single_dicom(b, p, e) ==
    LET r == read_dicom_file(p, e)
    IN  IF r.kind = "Err" THEN [kind |-> "Err", path |-> 0, cause |-> r.cause]
        ELSE IF b = "src" THEN extract_dicom_data(r, p)
        ELSE [kind |-> "Ok", path |-> 0, cause |-> r.cause]

Empty == [kind |-> "None", path |-> 0, cause |-> [variant |-> "Ok", filename |-> 0]]

----------------------------------------------------------------------------
(* State of the parallel map *)

N == Len(dicom_paths)
Items == 1..N
Entry(i) == tree[dicom_paths[i]]

Idle == [item |-> 0, step |-> "idle", result |-> Empty, tmp |-> 0]

PoolWorkers == 1..pool_size

Holders(i) == {w \in Workers : worker[w].item = i}

\* the state machine of one unit of work
UnitState(i) ==
    IF results[i].kind = "Ok" THEN "Succeeded"
    ELSE IF results[i].kind = "Err" THEN "Failed"
    ELSE IF Holders(i) # {} THEN "InProgress"
    ELSE "Discovered"

Terminal(i) == UnitState(i) \in {"Succeeded", "Failed"}

----------------------------------------------------------------------------
inputs == <<build, root, tree, threads, num_cores>>

Init ==
    /\ build \in Builds
    /\ root \in RootKinds
    /\ tree \in Trees
    /\ (root # "dir" => tree = <<>>)
    /\ threads \in {NoThreads} \cup 0..MaxCores
    /\ num_cores \in 1..MaxCores
    /\ num_threads = 0
    /\ pool_size = 0
    /\ pc = "args"
    /\ dicom_paths = <<>>
    /\ worker = [w \in Workers |-> Idle]
    /\ taken_by = <<>>
    /\ results = <<>>
    /\ processed_count = 0
    /\ mutex = 0
    /\ panicked = FALSE
    /\ errors = <<>>
    /\ exit_code = 0 - 1
    /\ elem = Absent /\ value = NoValue
    /\ dicom = <<>> /\ tags = <<>> /\ tag_idx = 0 /\ tags_map = NoMap
    /\ pixel_obj = NoObject /\ pixel_data = NotExtracted

\* main: "Determine number of threads"
DetermineThreads ==
    /\ pc = "args"
    /\ num_threads' = compute_num_threads(threads, num_cores)
    /\ pc' = "pool"
    /\ UNCHANGED dec_vars
    /\ UNCHANGED <<inputs, pool_size, dicom_paths, worker, taken_by, results,
                   processed_count, mutex, panicked, errors, exit_code>>

\* ThreadPoolBuilder::new().num_threads(n).build_global() returns Ok
BuildGlobal ==
    /\ pc = "pool"
    /\ pool_size' = rayon_pool_size(num_threads, num_cores)
    /\ pc' = "discover"
    /\ UNCHANGED dec_vars
    /\ UNCHANGED <<inputs, num_threads, dicom_paths, worker, taken_by, results,
                   processed_count, mutex, panicked, errors, exit_code>>

\* build_global() returns Err (the threads cannot be spawned): .unwrap() panics
BuildGlobalFails ==
    /\ pc = "pool"
    /\ pc' = "exit"
    /\ exit_code' = 101
    /\ UNCHANGED dec_vars
    /\ UNCHANGED <<inputs, num_threads, pool_size, dicom_paths, worker, taken_by,
                   results, processed_count, mutex, panicked, errors>>

\* get_dicom_paths_from_folder(read_args.path.to_str().unwrap())? and the
\* set-up of the counter and of the output vector
Discover ==
    /\ pc = "discover"
    /\ root # "nonutf8"
    /\ dicom_paths' = get_dicom_paths_from_folder(root, tree)
    /\ results' = [i \in 1..Len(dicom_paths') |-> Empty]
    /\ taken_by' = [i \in 1..Len(dicom_paths') |-> {}]
    /\ processed_count' = 0
    /\ pc' = "par_iter"
    /\ UNCHANGED dec_vars
    /\ UNCHANGED <<inputs, num_threads, pool_size, worker, mutex, panicked,
                   errors, exit_code>>

\* read_args.path.to_str() is None: .unwrap() panics
DiscoverPanics ==
    /\ pc = "discover"
    /\ root = "nonutf8"
    /\ pc' = "exit"
    /\ exit_code' = 101
    /\ UNCHANGED dec_vars
    /\ UNCHANGED <<inputs, num_threads, pool_size, dicom_paths, worker, taken_by,
                   results, processed_count, mutex, panicked, errors>>

\* whether pool thread w may start the closure on item i
CanTake(w, i) == worker[w].step = "idle" /\ taken_by[i] = {}

\* into_par_iter().map(..): a pool thread starts the closure on an item and
\* runs  let result = process_single_dicom(&path);
Process(w, i) ==
    /\ pc = "par_iter"
    /\ CanTake(w, i)
    /\ Entry(i).utf8
    /\ worker' = [worker EXCEPT ![w] = [item |-> i, step |-> "processed", tmp |-> 0,
                      result |-> process_single_dicom(build, dicom_paths[i], Entry(i))]]
    /\ taken_by' = [taken_by EXCEPT ![i] = @ \cup {w}]
    /\ UNCHANGED dec_vars
    /\ UNCHANGED <<inputs, num_threads, pool_size, pc, dicom_paths, results,
                   processed_count, mutex, panicked, errors, exit_code>>

\* the same, with path.to_str().unwrap() inside process_single_dicom
\* panicking: the closure unwinds and the pool keeps the panic for the caller
ProcessPanics(w, i) ==
    /\ pc = "par_iter"
    /\ CanTake(w, i)
    /\ ~Entry(i).utf8
    /\ worker' = [worker EXCEPT ![w] = [Idle EXCEPT !.item = i, !.step = "panicked"]]
    /\ taken_by' = [taken_by EXCEPT ![i] = @ \cup {w}]
    /\ panicked' = TRUE
    /\ UNCHANGED dec_vars
    /\ UNCHANGED <<inputs, num_threads, pool_size, pc, dicom_paths, results,
                   processed_count, mutex, errors, exit_code>>

\* a lock that excludes nobody (a faulty variant)
CanLock_always(w) == TRUE

\* whether pool thread w gets the counter's lock
CanLock(w) == mutex = 0

\* main.rs: let mut count = processed_count.lock().unwrap();
Lock(w) ==
    /\ build = "top"
    /\ worker[w].step = "processed"
    /\ CanLock(w)
    /\ mutex' = w
    /\ worker' = [worker EXCEPT ![w].step = "locked", ![w].tmp = processed_count]
    /\ UNCHANGED dec_vars
    /\ UNCHANGED <<inputs, num_threads, pool_size, pc, dicom_paths, taken_by, results,
                   processed_count, panicked, errors, exit_code>>

\* main.rs: *count += 1; println!(..); and the guard dropped at the block's end
Increment(w) ==
    /\ build = "top"
    /\ worker[w].step = "locked"
    /\ processed_count' = worker[w].tmp + 1
    /\ mutex' = IF mutex = w THEN 0 ELSE mutex
    /\ worker' = [worker EXCEPT ![w].step = "counted", ![w].tmp = 0]
    /\ UNCHANGED dec_vars
    /\ UNCHANGED <<inputs, num_threads, pool_size, pc, dicom_paths, taken_by, results,
                   panicked, errors, exit_code>>

\* src/main.rs: progress_bar.inc(1), an atomic fetch_add on the position
ProgressInc(w) ==
    /\ build = "src"
    /\ worker[w].step = "processed"
    /\ processed_count' = processed_count + 1
    /\ worker' = [worker EXCEPT ![w].step = "counted"]
    /\ UNCHANGED dec_vars
    /\ UNCHANGED <<inputs, num_threads, pool_size, pc, dicom_paths, taken_by, results,
                   mutex, panicked, errors, exit_code>>

\* the slot of the output vector that the closure's value for item i goes to
\* the slots counted from the back of the vector (a faulty variant)
Slot_mirrored(i) == Len(dicom_paths) + 1 - i

Slot(i) == i

\* the closure returns `result`; collect() writes it to the item's slot
Return(w) ==
    /\ worker[w].step = "counted"
    /\ results' = [results EXCEPT ![Slot(worker[w].item)] = worker[w].result]
    /\ worker' = [worker EXCEPT ![w] = Idle]
    /\ UNCHANGED dec_vars
    /\ UNCHANGED <<inputs, num_threads, pool_size, pc, dicom_paths, taken_by,
                   processed_count, mutex, panicked, errors, exit_code>>

Busy(w) == worker[w].step \notin {"idle", "panicked"}

\* whether collect() may hand the vector back to main
AllDone == \A i \in Items : results[i].kind # "None"

RECURSIVE filter_err_reversed(_, _)
\* the errors taken from the back of the vector (a faulty variant)
filter_err_reversed(rs, i) ==
    IF i > Len(rs) THEN <<>>
    ELSE filter_err_reversed(rs, i + 1) \o (IF rs[i].kind = "Err" THEN <<rs[i]>> ELSE <<>>)

RECURSIVE filter_err(_, _)
\* results.into_iter().filter_map(|r| r.err()).collect()
filter_err(rs, i) ==
    IF i > Len(rs) THEN <<>>
    ELSE (IF rs[i].kind = "Err" THEN <<rs[i]>> ELSE <<>>) \o filter_err(rs, i + 1)

\* .collect() returns once every item has been mapped; main then filters
\* the errors out of the vector
Collect ==
    /\ pc = "par_iter"
    /\ ~panicked
    /\ AllDone
    /\ \A w \in Workers : ~Busy(w)
    /\ errors' = filter_err(results, 1)
    /\ pc' = "report"
    /\ UNCHANGED dec_vars
    /\ UNCHANGED <<inputs, num_threads, pool_size, dicom_paths, worker, taken_by,
                   results, processed_count, mutex, panicked, exit_code>>

\* a closure panicked: once the pool threads have let go of their items the
\* panic resumes in main, which unwinds and the process exits with 101
Unwind ==
    /\ pc = "par_iter"
    /\ panicked
    /\ \A w \in Workers : ~Busy(w)
    /\ pc' = "exit"
    /\ exit_code' = 101
    /\ UNCHANGED dec_vars
    /\ UNCHANGED <<inputs, num_threads, pool_size, dicom_paths, worker, taken_by,
                   results, processed_count, mutex, panicked, errors>>

\* the error summary is printed and main returns Ok(())
Report ==
    /\ pc = "report"
    /\ pc' = "exit"
    /\ exit_code' = 0
    /\ UNCHANGED dec_vars
    /\ UNCHANGED <<inputs, num_threads, pool_size, dicom_paths, worker, taken_by,
                   results, processed_count, mutex, panicked, errors>>

Next ==
    \/ DetermineThreads
    \/ BuildGlobal
    \/ BuildGlobalFails
    \/ Discover
    \/ DiscoverPanics
    \/ \E w \in PoolWorkers, i \in Items : Process(w, i)
    \/ \E w \in PoolWorkers, i \in Items : ProcessPanics(w, i)
    \/ \E w \in PoolWorkers : Lock(w)
    \/ \E w \in PoolWorkers : Increment(w)
    \/ \E w \in PoolWorkers : ProgressInc(w)
    \/ \E w \in PoolWorkers : Return(w)
    \/ Collect
    \/ Unwind
    \/ Report

Spec == Init /\ [][Next]_vars

\* rayon keeps every pool thread running and main runs to its end: no step
\* that stays possible is put off for ever
FairSpec == Spec /\ WF_vars(Next)

----------------------------------------------------------------------------
(* DecodeSpec and TagSpec *)

\* main is not running
PipeOff ==
    /\ root = "dir" /\ tree = <<>> /\ threads = NoThreads /\ num_cores = 1
    /\ num_threads = 0 /\ pool_size = 0 /\ pc = "off" /\ dicom_paths = <<>>
    /\ worker = [w \in Workers |-> Idle] /\ taken_by = <<>> /\ results = <<>>
    /\ processed_count = 0 /\ mutex = 0 /\ panicked = FALSE /\ errors = <<>>
    /\ exit_code = 0 - 1

DecodeInit ==
    /\ build \in Builds
    /\ PipeOff
    /\ elem \in Elements
    /\ value = NoValue
    /\ dicom = <<>> /\ tags = <<>> /\ tag_idx = 0 /\ tags_map = NoMap
    /\ pixel_obj = NoObject /\ pixel_data = NotExtracted

\* the Ok(elem) arm: the value is computed from the element and its VR
DecodeElement ==
    /\ elem # Absent
    /\ value = NoValue
    /\ value' = decode_value(build, elem)
    /\ UNCHANGED <<pipe_vars, elem, dicom, tags, tag_idx, tags_map, pix_vars>>

DecodeSpec == DecodeInit /\ [][DecodeElement]_vars

TagInit ==
    /\ build \in Builds
    /\ PipeOff
    /\ elem = Absent
    /\ value = NoValue
    /\ dicom \in DicomObjects
    /\ tags \in DicomTagLists
    /\ tag_idx = 1
    /\ tags_map = NoMap
    /\ pixel_obj = NoObject /\ pixel_data = NotExtracted

\* one turn of `for tag in tags` with dicom.element(*tag) = Ok(elem)
TagFound ==
    /\ tag_idx \in 1..Len(tags)
    /\ dicom[tags[tag_idx]] # Absent
    /\ tags_map' = found_entry(build, tags_map, tags[tag_idx], dicom[tags[tag_idx]])
    /\ tag_idx' = tag_idx + 1
    /\ UNCHANGED <<pipe_vars, elem, value, dicom, tags, pix_vars>>

\* one turn of the loop with dicom.element(*tag) = Err(e)
TagNotFound ==
    /\ tag_idx \in 1..Len(tags)
    /\ dicom[tags[tag_idx]] = Absent
    /\ tags_map' = not_found_entry(tags_map, tags[tag_idx])
    /\ tag_idx' = tag_idx + 1
    /\ UNCHANGED <<pipe_vars, elem, value, dicom, tags, pix_vars>>

TagNext == TagFound \/ TagNotFound

TagSpec == TagInit /\ [][TagNext]_vars

----------------------------------------------------------------------------
(* PixelSpec *)

PixelInit ==
    /\ build \in Builds
    /\ PipeOff
    /\ elem = Absent /\ value = NoValue
    /\ dicom = <<>> /\ tags = <<>> /\ tag_idx = 0 /\ tags_map = NoMap
    /\ pixel_obj \in PixelObjects
    /\ pixel_data = NotExtracted

\* let pixel_data = extract_dicom_pixel_data(&dicom);
ExtractPixelData ==
    /\ pixel_obj # NoObject
    /\ pixel_data = NotExtracted
    /\ pixel_data' = extract_dicom_pixel_data(build, pixel_obj)
    /\ UNCHANGED <<pipe_vars, elem, value, dicom, tags, tag_idx, tags_map, pixel_obj>>

PixelSpec == PixelInit /\ [][ExtractPixelData]_vars

----------------------------------------------------------------------------
(* Properties of the batch pipeline *)

\* the discovered files whose open_file fails
FailingItems == {i \in Items : Entry(i).open # "Ok"}
K == Cardinality(FailingItems)

Succeeded == {i \in Items : results[i].kind = "Ok"}
Failed == {i \in Items : results[i].kind = "Err"}

\* main has returned Ok(()) (or is past collect())
Returned == pc = "report" \/ (pc = "exit" /\ exit_code = 0)

\* C1: when run finishes, every discovered file has exactly one outcome:
\* N - K files succeeded, K failed, the two add up to N, and the error
\* summary lists K errors; with N = 0 both collections are empty.
C1_OneOutcomePerFile ==
    Returned =>
        /\ Len(results) = N
        /\ Succeeded \cap Failed = {}
        /\ Succeeded \cup Failed = Items
        /\ Cardinality(Succeeded) = N - K
        /\ Cardinality(Failed) = K
        /\ Failed = FailingItems
        /\ (pc = "exit" => Len(errors) = K)

C1_Witness ==
    /\ pc = "exit" /\ exit_code = 0
    /\ N = 2 /\ K = 1 /\ pool_size = 2
    /\ Cardinality(taken_by[1] \cup taken_by[2]) = 2

\* the items whose closure is past the counter update
Counted(i) ==
    \/ results[i].kind # "None"
    \/ \E w \in Workers : worker[w].item = i /\ worker[w].step = "counted"

\* C2: under every interleaving the counter equals the number of files whose
\* closure is past the update (no lost update, no double count), it never
\* exceeds N, and it is N when run returns.
C2_CounterExact ==
    /\ processed_count = Cardinality({i \in Items : Counted(i)})
    /\ processed_count <= N
    /\ (Returned => processed_count = N)

\* two closures have completed their file at the same time: one holds the
\* counter's lock, the other waits for it
C2_Witness ==
    /\ build = "top"
    /\ \E w1, w2 \in Workers :
          /\ w1 # w2
          /\ worker[w1].step = "locked"
          /\ worker[w2].step = "processed"
          /\ worker[w1].result.kind # worker[w2].result.kind

\* the file of item i cannot be processed: its path does not convert, or
\* open_file fails
FileFails(i) == ~Entry(i).utf8 \/ Entry(i).open # "Ok"

\* C3: a failure on one file is recorded as that file's Failed outcome and
\* never aborts the batch: when the process ends, every discovered file is
\* in a terminal state and each file that failed is Failed.
C3_FailureIsolated ==
    pc = "exit" =>
        \A i \in Items : /\ Terminal(i)
                          /\ (FileFails(i) => UnitState(i) = "Failed")

\* C4: under fair scheduling, once the parallel map has started every
\* discovered file eventually reaches a terminal state.
C4_EventuallyTerminal ==
    (pc = "par_iter") ~> (\A i \in Items : Terminal(i))

\* the safety half of C4: a unit only moves Discovered -> InProgress ->
\* Succeeded or Failed, at most one pool thread ever starts it, and main is
\* past collect() only when every unit is terminal
C4_UnitSteps ==
    [][\A i \in Items :
          \/ pc = "discover"
          \/ UnitState(i)' = UnitState(i)
          \/ UnitState(i) = "Discovered" /\ UnitState(i)' = "InProgress"
          \/ UnitState(i) = "InProgress" /\ UnitState(i)' \in {"Succeeded", "Failed"}]_vars

C4_OneWorker ==
    \A i \in Items : /\ Cardinality(taken_by[i]) <= 1
                      /\ Holders(i) \subseteq taken_by[i]
                      /\ (Returned => Terminal(i))

\* a set-up error: the root path is missing or invalid, or the pool could
\* not be built
PoolFailed == pc = "exit" /\ pool_size = 0
SetupError == root # "dir" \/ PoolFailed

\* C5: the exit status is 0 whenever processing completes and non-zero
\* exactly when a set-up error occurred, and then no file was processed.
C5_ExitStatus ==
    pc = "exit" =>
        /\ (exit_code # 0 <=> SetupError)
        /\ (SetupError => \A i \in Items : taken_by[i] = {})

\* C6: every Failed outcome carries the path of its file with the error, and
\* every Succeeded outcome carries the record built for its file.
C6_OutcomeNamesFile ==
    \A i \in Items :
        /\ (results[i].kind = "Err" =>
                dicom_paths[i] \in {results[i].path, results[i].cause.filename})
        /\ (results[i].kind = "Ok" => results[i].path = dicom_paths[i])

----------------------------------------------------------------------------
(* Properties of the decoding *)

Decoded == pc = "off" /\ elem # Absent /\ value # NoValue

\* the VR policy table: the variant each VR is decoded to, the raw text
\* kept where a date or time does not parse, a sentinel only where the
\* table names it
VariantTable(e, v) ==
    LET s == to_str(e)
        raw == v.variant = "String" /\ s.ok /\ v.text = s.text
    IN  CASE e.vr \in StringVRs ->
               raw \/ (~s.ok /\ v = String(ParseErrorText))
          [] e.vr \in {"DA", "DT"} -> v.variant = "Date" \/ raw
          [] e.vr = "TM" -> v.variant = "Time" \/ raw
          [] e.vr = "US" ->
               v.variant = "UnsignedInteger" \/ (~to_int(e, "u16").ok /\ v = String(ParseErrorText))
          [] e.vr = "UL" ->
               v.variant = "UnsignedInteger" \/ (~to_int(e, "u32").ok /\ v = String(ParseErrorText))
          [] e.vr = "IS" ->
               v.variant = "Integer" \/ (~to_int(e, "i32").ok /\ v = String(ParseErrorText))
          [] e.vr \in {"DS", "FL", "FD"} ->
               v.variant = "Float" \/ (~to_float64(e).ok /\ v = String(ParseErrorText))
          [] OTHER ->
               raw \/ (~s.ok /\ v = String(UnsupportedText))

\* C7 as stated: for every handled VR and every element, decode returns the
\* variant the policy table assigns to the VR.
C7_VariantTable == Decoded => VariantTable(elem, value)

\* C7 amended: the decoder of dicom_utils.rs returns the variant the policy
\* table assigns; the decoder of src/dicom_utils.rs returns a String for
\* every VR, the element's text or "<parse error>".
C7_VariantTableByBuild ==
    Decoded =>
        IF build = "top" THEN VariantTable(elem, value)
        ELSE \/ to_str(elem).ok /\ value = String(to_str(elem).text)
             \/ ~to_str(elem).ok /\ value = String(ParseErrorText)

\* a malformed integer string went through the typed decoder
C7_Witness ==
    /\ Decoded /\ build = "top"
    /\ elem = Elem("IS", "Strs", <<"a", "b", "c">>, 0)
    /\ value = String(ParseErrorText)

AllDigits(t) == digit_run(t, Len(t)) = Len(t)

\* a valid date written as exactly YYYYMMDD
IsYYYYMMDD(t) ==
    /\ Len(t) = 8
    /\ AllDigits(t)
    /\ digits_value(SubSeq(t, 5, 6)) \in 1..12
    /\ digits_value(SubSeq(t, 7, 8)) >= 1
    /\ digits_value(SubSeq(t, 7, 8)) <=
          DaysInMonth(digits_value(SubSeq(t, 1, 4)), digits_value(SubSeq(t, 5, 6)))

\* C9: a DA element decodes to the Date at midnight of its day when its text
\* is a valid YYYYMMDD date, and to the String of the raw text otherwise.
C9_DateDecode ==
    (Decoded /\ build = "top" /\ elem.vr = "DA" /\ elem.kind = "Strs") =>
        IF IsYYYYMMDD(elem.text)
        THEN value = Date(<<digits_value(SubSeq(elem.text, 1, 4)),
                            digits_value(SubSeq(elem.text, 5, 6)),
                            digits_value(SubSeq(elem.text, 7, 8)), 0, 0, 0, 0>>)
        ELSE value = String(elem.text)

\* the formats of the TM arm that parse a text
Matching(t) == {i \in 1..Len(TimeFormats) : NaiveTime_parse_from_str(t, TimeFormats[i]).ok}

\* C10: a TM element is decoded by the first format that matches: "143000"
\* is 14:30:00, "143000.500" is 14:30:00.500 (500 milliseconds), and a text
\* no format matches, such as "abc", stays a String.
C10_TimeDecode ==
    (Decoded /\ build = "top" /\ elem.vr = "TM" /\ elem.kind = "Strs") =>
        /\ (elem.text = <<"1", "4", "3", "0", "0", "0">>
               => value = Time(<<14, 30, 0, 0>>))
        /\ (elem.text = <<"1", "4", "3", "0", "0", "0", ".", "5", "0", "0">>
               => value = Time(<<14, 30, 0, 500000000>>))
        /\ (elem.text = <<"a", "b", "c">> => value = String(elem.text))
        /\ (Matching(elem.text) = {} => value = String(elem.text))
        /\ (Matching(elem.text) # {} =>
               \E i \in Matching(elem.text) :
                   /\ \A k \in Matching(elem.text) : i <= k
                   /\ value = Time(NaiveTime_parse_from_str(elem.text, TimeFormats[i]).dt))

----------------------------------------------------------------------------
(* Properties of the pixel extraction *)

Extracted == pc = "off" /\ pixel_obj # NoObject /\ pixel_data # NotExtracted

\* the candidate types to_ndarray answers Ok for
Decodes(obj) ==
    {i \in 1..Len(Candidates) :
        decode_pixel_data(obj).ok /\ to_ndarray(Candidates[i], decode_pixel_data(obj)).ok}

\* the whole part of every sample, in the shape of the decoded buffer
Conversion(obj) ==
    [kind |-> "Some", dtype |-> "i32", shape |-> obj.shape,
     data |-> [i \in 1..Len(obj.samples) |-> trunc(obj.samples[i])]]

\* what the four candidates in their order give: nothing when the element is
\* absent or no candidate decodes, otherwise the conversion of the first
\* candidate that decodes
FirstCandidate(obj, pd) ==
    /\ pd.kind \in {"None", "Some"}
    /\ pd.kind = "None" <=> (obj.element = "absent" \/ Decodes(obj) = {})
    /\ pd.kind = "Some" =>
          \E i \in Decodes(obj) :
              /\ \A k \in Decodes(obj) : i <= k
              /\ pd.shape = obj.shape
              /\ Len(pd.data) = Len(obj.samples)
              /\ \A j \in 1..Len(pd.data) :
                    pd.data[j] = as_i32(Candidates[i], NumCast(Candidates[i], obj.samples[j]).v)

\* C11 as stated: extract returns, without raising, the element-wise
\* conversion of the first of u16, u8, i16, f32 that decodes, and nothing
\* exactly when the element is absent or no candidate decodes.
C11_FirstCandidate == Extracted => FirstCandidate(pixel_obj, pixel_data)

\* C11 amended: extract_dicom_pixel_data of src/dicom_utils.rs does as C11
\* says; extract_dicom_pixel_data of dicom_utils.rs asks for u16 alone and
\* returns nothing when the buffer does not decode as u16. Neither raises.
C11_FirstCandidateByBuild ==
    Extracted =>
        IF build = "src" THEN FirstCandidate(pixel_obj, pixel_data)
        ELSE /\ pixel_data.kind \in {"None", "Some"}
             /\ pixel_data.kind = "Some" <=> 1 \in Decodes(pixel_obj)
             /\ pixel_data.kind = "Some" =>
                   /\ pixel_data.dtype = "u16"
                   /\ pixel_data.shape = pixel_obj.shape
                   /\ pixel_data.data = Conversion(pixel_obj).data

\* a buffer that decodes as i16 and not as u16 or u8 was read as i16
C11_Witness ==
    /\ Extracted /\ build = "src"
    /\ Decodes(pixel_obj) = {3, 4}
    /\ pixel_data = Conversion(pixel_obj)

\* a buffer that decodes as u16 and as u8 was read
C11_WitnessBoth ==
    /\ Extracted /\ build = "src"
    /\ {1, 2} \subseteq Decodes(pixel_obj)
    /\ pixel_data.kind = "Some"

----------------------------------------------------------------------------
(* Properties of the discovery *)

\* the entries the walk yields that are regular files and not ".DS_Store"
WantedFiles ==
    {i \in 1..Len(tree) :
        tree[i].walk_ok /\ tree[i].ftype = "file" /\ tree[i].name # ".DS_Store"}

\* C12: the discovered list holds every regular file under the root that is
\* not ".DS_Store", holds no directory and no ".DS_Store", and holds no
\* file twice.
C12_DiscoveryComplete ==
    pc \in {"par_iter", "report"} =>
        /\ \A i \in WantedFiles : \E k \in 1..Len(dicom_paths) : dicom_paths[k] = i
        /\ \A k \in 1..Len(dicom_paths) : dicom_paths[k] \in WantedFiles
        /\ \A k, l \in 1..Len(dicom_paths) : dicom_paths[k] = dicom_paths[l] => k = l

----------------------------------------------------------------------------
(* Properties of the worker count *)

\* the pool threads that are inside the closure
Running == {w \in Workers : Busy(w)}

\* C13: the chosen worker count is the override when there is one and
\* otherwise the number of cores minus one, at least one; the pool, once
\* built, has at least one worker and never more workers than the chosen
\* count, nor are more than that many at work at once.
C13_WorkerCount ==
    /\ pc # "args" =>
          num_threads = IF threads # NoThreads THEN threads
                        ELSE IF num_cores - 1 >= 1 THEN num_cores - 1 ELSE 1
    /\ pc \in {"discover", "par_iter", "report"} =>
          /\ pool_size >= 1
          /\ pool_size <= num_threads
          /\ Cardinality(Running) <= num_threads

----------------------------------------------------------------------------
(* Properties of a run against the directory *)

\* the files of the tree the run reported as read / as failed
SucceededFiles == {dicom_paths[i] : i \in Succeeded}
FailedFiles == {dicom_paths[i] : i \in Failed}

\* the files of a directory the iterator chain lets through
Discoverable(r, t) ==
    IF r # "dir" THEN {}
    ELSE {j \in 1..Len(t) : entry_filter(t[j]) /\ name_filter(t[j])}

\* the partition a directory determines, whatever the thread count, the
\* number of cores and the schedule
Partition(r, t) ==
    [succeeded |-> {j \in Discoverable(r, t) : t[j].open = "Ok"},
     failed |-> {j \in Discoverable(r, t) : t[j].open # "Ok"}]

\* C14: the succeeded files and the failed files of a run that returns are
\* the two sets the directory alone determines, for every worker count and
\* every schedule; so two runs over an unchanged directory yield the same
\* two sets.  Whether a run whose pool was built returns or unwinds is
\* determined by the directory as well.
C14_SamePartition ==
    /\ Returned =>
          /\ SucceededFiles = Partition(root, tree).succeeded
          /\ FailedFiles = Partition(root, tree).failed
          /\ \A j \in Discoverable(root, tree) : tree[j].utf8
    /\ panicked => \E j \in Discoverable(root, tree) : ~tree[j].utf8

\* a run on one pool thread returned with a file read and a file failed,
\* the failed one discovered first
C14_Witness ==
    /\ pc = "report"
    /\ pool_size = 1
    /\ N = 2 /\ Failed = {1} /\ Succeeded = {2}

\* the same directory read by two pool threads, each taking one file
C14_WitnessTwoThreads ==
    /\ pc = "report"
    /\ pool_size = 2
    /\ N = 2 /\ Failed = {1} /\ Succeeded = {2}
    /\ taken_by[1] # taken_by[2]

----------------------------------------------------------------------------
(* Properties of the order of the results *)

\* the k-th failed item in the order of discovery
KthFailed(k) == CHOOSE i \in Failed : Cardinality({j \in Failed : j < i}) = k - 1

\* C15: the results vector has one slot per discovered path; a slot that is
\* filled holds the outcome of the file at the same position of the
\* discovered list, whichever pool thread produced it and whenever; the
\* errors main reports are the Err results in the order of discovery.
C15_ResultsInDiscoveryOrder ==
    /\ pc \in {"par_iter", "report"} \/ Returned =>
          /\ Len(results) = Len(dicom_paths)
          /\ \A i \in Items :
                results[i].kind # "None" =>
                    results[i] = process_single_dicom(build, dicom_paths[i], Entry(i))
    /\ Returned =>
          /\ Len(errors) = Cardinality(Failed)
          /\ \A k \in 1..Len(errors) : errors[k] = results[KthFailed(k)]

\* the second file was finished before the first and its outcome is in the
\* second slot
C15_Witness ==
    /\ pc = "par_iter"
    /\ N = 2
    /\ results[1].kind = "None" /\ worker[1].item = 1
    /\ results[2].kind = "Err"

\* two files failed with different errors and both are reported
C15_WitnessReport ==
    /\ pc = "report"
    /\ Len(errors) = 2
    /\ errors[1] # errors[2]
    /\ taken_by[1] # taken_by[2]

====
